---- MODULE Spec2Model ----
(***************************************************************************)
(* A model of the docker_mirrors proxy engine (src/src/services/proxy.rs): *)
(* registry routing, the Docker Hub path canonicalizer, header            *)
(* preparation, the general (non-blob) flow with its challenge-driven      *)
(* retry and Hub-API fall-back, and the blob pipeline with its manual      *)
(* redirect loop, 401 re-authentication and CDN fall-back sub-routine.     *)
(*                                                                         *)
(* Strings are TLA+ strings; starts_with, contains, split and the other    *)
(* string operations of the source are computed character by character.    *)
(* One step of the engine is one outbound HTTP call together with the      *)
(* handling of its outcome up to the next outbound call; the outcome       *)
(* (response or transport error) is chosen by the environment.             *)
(***************************************************************************)
EXTENDS Integers, Sequences, FiniteSets, TLC

\* ------------------------------------------------------------------------
\* String operations (Rust's str methods used by the source)
\* ------------------------------------------------------------------------

StartsWith(s, p) == Len(s) >= Len(p) /\ SubSeq(s, 1, Len(p)) = p

\* str::matches(c).count() for a one-character pattern
CountChar(s, c) == Cardinality({i \in 1..Len(s) : SubSeq(s, i, i) = c})

\* Index of the first occurrence of sub in s at or after i, 0 when there is
\* none
RECURSIVE IndexFrom(_, _, _)
IndexFrom(s, sub, i) ==
    IF i + Len(sub) - 1 > Len(s) THEN 0
    ELSE IF SubSeq(s, i, i + Len(sub) - 1) = sub THEN i
    ELSE IndexFrom(s, sub, i + 1)

\* str::find: index of the first occurrence of sub in s, 0 when there is none
IndexOf(s, sub) == IndexFrom(s, sub, 1)

Contains(s, sub) == IndexOf(s, sub) # 0

\* str::split(sep) collected: the pieces between the occurrences of sep; the
\* function constructor binds str to the value of s, so each level of the
\* recursion works on a string and not on an unevaluated expression
RECURSIVE Split(_, _)
Split(s, sep) ==
    [str \in {s} |->
        LET i == IndexOf(str, sep)
        IN  IF i = 0 THEN <<str>>
            ELSE <<SubSeq(str, 1, i - 1)>>
                    \o Split(SubSeq(str, i + Len(sep), Len(str)), sep)][s]

\* str::trim_start_matches(p): p removed from the front as often as it occurs
RECURSIVE TrimStartMatches(_, _)
TrimStartMatches(s, p) ==
    IF Len(p) > 0 /\ StartsWith(s, p)
    THEN TrimStartMatches(SubSeq(s, Len(p) + 1, Len(s)), p)
    ELSE s

\* str::trim: ASCII spaces removed from both ends
RECURSIVE Trim(_)
Trim(s) ==
    IF Len(s) > 0 /\ SubSeq(s, 1, 1) = " " THEN Trim(SubSeq(s, 2, Len(s)))
    ELSE IF Len(s) > 0 /\ SubSeq(s, Len(s), Len(s)) = " "
         THEN Trim(SubSeq(s, 1, Len(s) - 1))
         ELSE s

\* str::trim_matches('"'): double quotes removed from both ends
RECURSIVE TrimQuotes(_)
TrimQuotes(s) ==
    IF Len(s) > 0 /\ SubSeq(s, 1, 1) = "\"" THEN TrimQuotes(SubSeq(s, 2, Len(s)))
    ELSE IF Len(s) > 0 /\ SubSeq(s, Len(s), Len(s)) = "\""
         THEN TrimQuotes(SubSeq(s, 1, Len(s) - 1))
         ELSE s

\* str::splitn(2, sep): at most two pieces, split at the first sep
SplitN2(s, sep) ==
    LET i == IndexOf(s, sep)
    IN  IF i = 0 THEN <<s>>
        ELSE <<SubSeq(s, 1, i - 1), SubSeq(s, i + Len(sep), Len(s))>>

UpperLetters == "ABCDEFGHIJKLMNOPQRSTUVWXYZ"
LowerLetters == "abcdefghijklmnopqrstuvwxyz"

\* str::to_lowercase on ASCII text
RECURSIVE ToLowercase(_)
ToLowercase(s) ==
    IF s = "" THEN ""
    ELSE LET c == SubSeq(s, 1, 1)
             i == IndexOf(UpperLetters, c)
         IN  (IF i = 0 THEN c ELSE SubSeq(LowerLetters, i, i))
                \o ToLowercase(SubSeq(s, 2, Len(s)))

\* ------------------------------------------------------------------------
\* Configuration
\* ------------------------------------------------------------------------

DockerHub == "registry-1.docker.io"

\* RegistryConfig::default: the built-in registry table
Registries ==
    [k \in {"docker", "quay", "gcr", "k8s-gcr", "k8s", "ghcr", "cloudsmith",
            "nvcr", "gitlab"} |->
        CASE k = "docker" -> "registry-1.docker.io"
          [] k = "quay" -> "quay.io"
          [] k = "gcr" -> "gcr.io"
          [] k = "k8s-gcr" -> "k8s.gcr.io"
          [] k = "k8s" -> "registry.k8s.io"
          [] k = "ghcr" -> "ghcr.io"
          [] k = "cloudsmith" -> "docker.cloudsmith.io"
          [] k = "nvcr" -> "nvcr.io"
          [] k = "gitlab" -> "registry.gitlab.com"]

None == "<none>"

\* C11 mutant: a key the table does not hold is served from Docker Hub
get_registry_url_or_hub(key) ==
    IF key \in DOMAIN Registries THEN Registries[key] ELSE DockerHub

\* RegistryConfig::get_registry_url
get_registry_url(key) ==
    IF key \in DOMAIN Registries THEN Registries[key] ELSE None

\* ------------------------------------------------------------------------
\* Path canonicalizer
\* ------------------------------------------------------------------------

\* C5 mutant: the test looks for /v2 anywhere in the path
AlreadyV2Anywhere(path) == Contains(path, "/v2")

\* C6 mutant: the test for an already canonical path is lost
AlreadyV2Never(path) == FALSE

\* proxy.rs:113, the test that the path is already in /v2 form
AlreadyV2(path) == StartsWith(path, "/v2")

\* C7 mutant: the namespace test asks for one separator more
HasNamespaceStrict(path) == CountChar(path, "/") > 2

\* proxy.rs:119, the path holds a namespace (/username/repo)
HasNamespace(path) == CountChar(path, "/") >= 2

format_docker_hub_path(registry_key, path) ==
    IF registry_key = "v2"
    THEN IF path = "/" THEN "/v2/" ELSE "/v2" \o path
    ELSE IF ~AlreadyV2(path)
         THEN IF StartsWith(path, "/library/")
              THEN "/v2" \o path
              ELSE IF StartsWith(path, "/") /\ ~StartsWith(path, "/v2/")
                   THEN IF HasNamespace(path)
                        THEN "/v2" \o path
                        ELSE "/v2/library" \o path
                   ELSE "/v2/" \o path
         ELSE path

\* ------------------------------------------------------------------------
\* Pure helpers of the proxy engine
\* ------------------------------------------------------------------------

\* C10 mutant: the credentials are taken as configured without a look
is_configured_always(credentials) == TRUE

\* DockerHubCredentials::is_configured
is_configured(credentials) ==
    credentials.username # None /\ credentials.password # None

\* The key=value terms of a challenge, in order, as <<key, value>> pairs
ParseParams(params_str) ==
    LET terms == Split(params_str, ",")
        kv(i) == SplitN2(terms[i], "=")
        kept == SelectSeq([i \in 1..Len(terms) |-> i], LAMBDA i : Len(kv(i)) = 2)
    IN  [n \in 1..Len(kept) |->
            <<Trim(kv(kept[n])[1]), TrimQuotes(Trim(kv(kept[n])[2]))>>]

\* parse_www_authenticate_header: some = FALSE models None
parse_www_authenticate_header(header_value) ==
    LET parts == SplitN2(header_value, " ")
    IN  IF Len(parts) # 2
        THEN [some |-> FALSE, auth_type |-> "", params |-> <<>>]
        ELSE [some |-> TRUE, auth_type |-> parts[1], params |-> ParseParams(parts[2])]

\* params.get(name).cloned().unwrap_or_default(): a later insert replaces
\* an earlier one
ParamOrDefault(params, name) ==
    LET hits == {i \in 1..Len(params) : params[i][1] = name}
    IN  IF hits = {} THEN ""
        ELSE params[CHOOSE i \in hits : \A j \in hits : j <= i][2]

\* The URL get_docker_hub_token requests (proxy.rs:65-68)
TokenUrl(realm, service, scope) ==
    LET base == realm \o "?service=" \o service
    IN  IF scope # "" THEN base \o "&scope=" \o scope ELSE base

\* reqwest's Method::from_str accepts a non-empty token of method characters;
\* a space is none
ValidMethod(method) == method # "" /\ ~Contains(method, " ")

is_success(status) == status >= 200 /\ status <= 299

is_redirection(status) == status >= 300 /\ status <= 399

\* The headers of the model: the fields the engine reads or writes that the
\* properties speak of (Host, Authorization, Accept); None is an absent
\* header. Headers builds a map without an Accept header.
Headers(host, authorization) ==
    [host |-> host, authorization |-> authorization, accept |-> None]

\* HeaderMap::new(): no Host, no Authorization and no Accept header
EmptyHeaders == Headers(None, None)

\* insert(header::ACCEPT, value)
WithAccept(h, value) == [h EXCEPT !.accept = value]

\* proxy.rs:212 and 217: the Accept values prepare_headers inserts
BlobAccept ==
    "application/octet-stream, application/vnd.docker.image.rootfs.diff.tar.gzip, application/vnd.oci.image.layer.v1.tar+gzip"

ManifestAccept ==
    "application/json, application/vnd.docker.distribution.manifest.v2+json, application/vnd.docker.distribution.manifest.list.v2+json, application/vnd.oci.image.manifest.v1+json, application/vnd.oci.image.index.v1+json"

\* proxy.rs:410: the Accept value of the requests to the CDN candidates
CdnAccept ==
    "application/octet-stream, application/vnd.docker.image.rootfs.diff.tar.gzip"

\* proxy.rs:481-484: the headers the direct fall-back starts from
DirectHeaders == WithAccept(EmptyHeaders, "*/*")

\* C16 mutant: the Accept header is overwritten for every request
AcceptForOverwriting(accept, is_blob) ==
    IF is_blob THEN BlobAccept ELSE ManifestAccept

\* proxy.rs:209-219: the Accept header of the prepared headers, from the one
\* the inbound headers hold
AcceptFor(accept, is_blob) ==
    IF is_blob THEN BlobAccept
    ELSE IF accept = None THEN ManifestAccept
    ELSE accept

\* C9 mutant: the Host header of the inbound request is kept
prepare_headers_keep_host(headers, registry_url, is_blob) == headers

\* prepare_headers: the inbound headers cloned, Host overwritten with the
\* registry host, Accept set; Authorization is left as the client sent it
prepare_headers(headers, registry_url, is_blob) ==
    [headers EXCEPT !.host = registry_url,
                    !.accept = AcceptFor(headers.accept, is_blob)]

\* ------------------------------------------------------------------------
\* State
\* ------------------------------------------------------------------------

VARIABLES
    turn,           \* interleaving exercise: the invocation that runs, 0: none
    other,          \* interleaving exercise: the locals of the suspended invocation
    trace,          \* interleaving exercise: the requests the running invocation
                    \* sent, each with the outcome of its send
    h_status,       \* handler exercise: the status of the engine's response
    h_bytes,        \* handler exercise: the bytes of the upstream body
    h_read,         \* handler exercise: response.bytes() succeeds
    h_client,       \* the handler's response to the client, once h_called
    h_called,       \* the handler's Ok arm has run
    p_headers,      \* prepare_headers exercise: the inbound headers
    p_registry_url, \* prepare_headers exercise: the registry host
    p_is_blob,      \* prepare_headers exercise: the blob flag
    p_out,          \* prepare_headers' result, once p_called
    p_called,       \* prepare_headers was called
    t_scope,        \* get_docker_hub_token exercise: the scope asked for
    t_reply,        \* get_docker_hub_token exercise: what the realm answered
    t_token,        \* get_docker_hub_token's result, once t_called
    t_called,       \* get_docker_hub_token was called
    c_key,          \* canonicalizer exercise: the registry key
    c_path,         \* canonicalizer exercise: the input path
    c_out,          \* format_docker_hub_path(c_key, c_path), None before the call
    c_out2,         \* format_docker_hub_path(c_key, c_out), None before the call
    registry_key,   \* forward_request's arguments ...
    path,
    method,
    headers,        \* ... the inbound headers as handle_registry_request copies them
    body,           \* ... and the inbound body, None when it is empty
    credentials,    \* config.docker_hub_credentials
    token,          \* handle_blob_request's token argument
    pc,             \* the engine's position: the outbound call it makes next
    response,       \* the response the engine holds while it tries something else
    headers_with_auth,  \* the headers of the authenticated retry
    current_url,    \* handle_blob_request's locals ...
    current_headers,
    redirect_count,
    cdn_fallbacks,  \* the candidate URLs of the CDN fall-back
    cdn_i,          \* index of the CDN candidate being tried
    retry,          \* attempts made on that candidate that ended in a network error
    redirect_url,   \* Location of a CDN candidate's redirect
    direct_headers, \* headers of the direct fall-back request
    result,         \* what forward_request returned, kind None while it runs
    out,            \* the outbound request sent last
    first_upstream, \* the first request sent to the upstream URL
    followed,       \* requests the blob pipeline sent to a redirect's Location
    cdn_reqs,       \* outbound requests of the running CDN fall-back
    last_candidate, \* the number of the CDN candidate contacted last, 0: none
    cdn_success,    \* a candidate or its redirect target has answered 2xx
    cdn_reply,      \* how the fall-back's last send to a CDN ended, None: no send
    chain_reqs      \* requests the pipeline has sent while it only followed
                    \* redirects; -1 from its first token exchange on

canon_vars == <<c_key, c_path, c_out, c_out2>>

prep_vars == <<p_headers, p_registry_url, p_is_blob, p_out, p_called>>

token_vars == <<t_scope, t_reply, t_token, t_called>>

body_vars == <<h_status, h_bytes, h_read, h_client, h_called>>

conc_vars == <<turn, other>>

unit_vars == <<prep_vars, token_vars, body_vars, conc_vars>>

input_vars == <<registry_key, path, method, headers, body, credentials>>

engine_vars == <<token, pc, response, headers_with_auth, current_url, current_headers,
                 redirect_count, cdn_fallbacks, cdn_i, retry, redirect_url,
                 direct_headers, result>>

cdn_seen == <<last_candidate, cdn_success, cdn_reply>>

observer_vars == <<out, first_upstream, followed, cdn_reqs, cdn_seen, chain_reqs,
                   trace>>

vars == <<canon_vars, unit_vars, input_vars, engine_vars, observer_vars>>

\* ------------------------------------------------------------------------
\* Requests, responses and results
\* ------------------------------------------------------------------------

\* An outbound request: what one send() of the engine puts on the wire. kind
\* names the place that sent it: upstream (first request of the general
\* flow), retry (its authenticated retry), blob (a hop of the blob pipeline),
\* token, api (Hub API), cdn, cdn_redirect, direct.
Request(kind, m, url, h) ==
    [kind |-> kind, method |-> m, url |-> url, headers |-> h, body |-> None]

NoRequest == Request(None, None, None, EmptyHeaders)

\* C26 mutant: the body is attached whatever the method
create_request_builder_any_method(kind, m, url, h, b) ==
    [Request(kind, m, url, h) EXCEPT !.body = b]

\* proxy.rs:149-165: the request create_request_builder builds for a method
\* it accepts; the body is left out of a HEAD request
create_request_builder(kind, m, url, h, b) ==
    [Request(kind, m, url, h) EXCEPT !.body = IF m = "HEAD" THEN None ELSE b]

\* A response as send() hands it to the engine; from names the kind of the
\* request it answers.
Response(status, location, www_auth, from) ==
    [status |-> status, location |-> location, www_auth |-> www_auth, from |-> from]

NoResponse == Response(0, None, None, None)

Ok(resp) == [kind |-> "ok", resp |-> resp, msg |-> ""]

Err(msg) == [kind |-> "err", resp |-> NoResponse, msg |-> msg]

\* An index or slice out of range: the request's task panics
Panic(msg) == [kind |-> "panic", resp |-> NoResponse, msg |-> msg]

Running == [kind |-> None, resp |-> NoResponse, msg |-> ""]

\* ------------------------------------------------------------------------
\* The environment: what upstreams, CDNs and the token realm may answer
\* ------------------------------------------------------------------------

\* The WWW-Authenticate values the upstream may send; None: no such header
BearerChallenge ==
    "Bearer realm=\"https://auth.docker.io/token\",service=\"registry.docker.io\",scope=\"repository:library/nginx:pull\""

Challenges == {None, BearerChallenge, "Basic realm=\"registry\"", "Bearer"}

\* parse_www_authenticate_header on each of them, computed once
ParsedChallenge ==
    [w \in Challenges \ {None} |-> parse_www_authenticate_header(w)]

CdnLocation == "https://cdn.example.com/data"

HubLocation == "https://registry-1.docker.io/v2/library/nginx/blobs/sha256:0a1b"

Locations == {CdnLocation, HubLocation}

\* A transport error of send()
SendError == Response(0, None, None, "error")

\* The outcomes of a send(): a transport error or a response. The client
\* follows 301, 302, 303, 307 and 308 by itself (proxy.rs:27), so the 3xx
\* that send() hands back is one of the others.
Outcomes(from) ==
    {SendError}
    \cup {Response(st, None, None, from) : st \in {200, 300, 403, 404}}
    \cup {Response(300, l, None, from) : l \in Locations}
    \cup {Response(401, None, w, from) : w \in Challenges}

\* The outcomes of the realm's GET: a transport error, a refusal, or a 2xx
\* whose JSON body holds the fields given (None: the field is missing)
TokenReply(status, tok, access_token) ==
    [status |-> status, token |-> tok, access_token |-> access_token]

TokenOutcomes ==
    {TokenReply(0, None, None), TokenReply(401, None, None),
     TokenReply(200, "T", None), TokenReply(200, None, "A")}

\* Option::None for a token, and Err of get_docker_hub_token
NoToken == [some |-> FALSE, token |-> ""]

\* get_docker_hub_token from its reply on: some = FALSE models Err. The
\* token field is required by TokenResponse, access_token defaults to "".
TokenResult(reply) ==
    IF reply.status = 0 \/ ~is_success(reply.status) \/ reply.token = None
    THEN [some |-> FALSE, token |-> ""]
    ELSE [some |-> TRUE,
          token |-> IF reply.token # "" THEN reply.token
                    ELSE IF reply.access_token = None THEN ""
                    ELSE reply.access_token]

\* RequestBuilder::basic_auth: the Authorization value for a user and a
\* password, written here before its base64 encoding
BasicAuth(username, password) == "Basic " \o username \o ":" \o password

\* The request get_docker_hub_token sends: basic auth when credentials are
\* configured, no other header
TokenRequest(realm, service, scope) ==
    Request("token", "GET", TokenUrl(realm, service, scope),
            Headers(None, IF is_configured(credentials)
                          THEN BasicAuth(credentials.username, credentials.password)
                          ELSE None))

\* ------------------------------------------------------------------------
\* forward_request: the locals computed before the first outbound call
\* ------------------------------------------------------------------------

\* proxy.rs:545-556; None models the unsupported registry
registry_url ==
    IF registry_key = "v2" THEN DockerHub ELSE get_registry_url(registry_key)

\* C8 mutant: the canonicalizer is run for every upstream
formatted_path_always ==
    format_docker_hub_path(registry_key, path)

\* proxy.rs:559-563
formatted_path ==
    IF registry_url = DockerHub
    THEN format_docker_hub_path(registry_key, path)
    ELSE path

\* proxy.rs:565-569, for a request without a query string
url == "https://" \o registry_url \o formatted_path

is_blob_request == Contains(formatted_path, "/blobs/")

headers_clone == prepare_headers(headers, registry_url, is_blob_request)

\* The response carries a WWW-Authenticate header that parses to a Bearer
\* challenge (proxy.rs:599-605 and 317-323)
BearerOffered(r) ==
    /\ r.www_auth # None
    /\ LET c == ParsedChallenge[r.www_auth]
       IN  c.some /\ ToLowercase(c.auth_type) = "bearer"

\* The token request a challenge leads to (proxy.rs:606-613 and 324-331)
ChallengeTokenRequest(r) ==
    LET params == ParsedChallenge[r.www_auth].params
    IN  TokenRequest(ParamOrDefault(params, "realm"),
                     ParamOrDefault(params, "service"),
                     ParamOrDefault(params, "scope"))

\* A Bearer token put into the Authorization header
WithBearer(h, tok) == [h EXCEPT !.authorization = "Bearer " \o tok]

\* ------------------------------------------------------------------------
\* Specification Spec: one inbound request served by forward_request
\* ------------------------------------------------------------------------

Keys == {"v2", "docker", "quay", "unknown"}

Paths == {"/library/nginx/manifests/latest",
          "/nginx/manifests/latest",
          "/v2/library/nginx/tags/list",
          "/library/nginx/blobs/sha256:0a1b",
          "/registry-1.docker.io/nginx/blobs/sha256:0a1b"}

\* A standard verb, an extension verb, and a string that is no method token
Methods == {"GET", "PROPFIND", "GE T"}

\* The inbound headers: the client's own Host, and its Authorization if it
\* sent one
InboundHeaders ==
    {Headers("mirror.local", a) : a \in {None, "Basic Y2xpZW50"}}

CredentialChoices ==
    {[username |-> None, password |-> None],
     [username |-> "user", password |-> "secret"]}

CanonIdle ==
    /\ c_key = None
    /\ c_path = None
    /\ c_out = None
    /\ c_out2 = None

\* prepare_headers is not exercised
PrepIdle ==
    /\ p_headers = EmptyHeaders
    /\ p_registry_url = None
    /\ p_is_blob = FALSE
    /\ p_out = EmptyHeaders
    /\ p_called = FALSE

\* A body of the handler's response: the bytes handed to builder.body, or
\* the text of a String built by format!
BytesBody(bytes) == [kind |-> "bytes", bytes |-> bytes, text |-> ""]

TextBody(text) == [kind |-> "text", bytes |-> <<>>, text |-> text]

\* The locals of an invocation of forward_request that runs its general
\* flow, as they are kept while the invocation is suspended at an await
Context(key, p, m, h) ==
    [registry_key |-> key, path |-> p, method |-> m, headers |-> h,
     pc |-> "start", response |-> NoResponse, headers_with_auth |-> EmptyHeaders,
     result |-> Running, out |-> NoRequest, first_upstream |-> NoRequest,
     trace |-> <<>>]

NoContext == Context(None, None, None, EmptyHeaders)

\* The trace with one more send: the request and how its send ended. It is
\* kept only while invocations are interleaved.
Traced(request, outcome) ==
    IF turn = 0 THEN trace
    ELSE Append(trace, [request |-> request, outcome |-> outcome])

\* No interleaving of invocations is exercised
ConcIdle ==
    /\ turn = 0
    /\ other = NoContext

\* The handler's Ok arm is not exercised
BodyIdle ==
    /\ h_status = 0
    /\ h_bytes = <<>>
    /\ h_read = TRUE
    /\ h_client = [status |-> 0, body |-> BytesBody(<<>>)]
    /\ h_called = FALSE

\* get_docker_hub_token is not exercised
TokenIdle ==
    /\ t_scope = None
    /\ t_reply = TokenReply(0, None, None)
    /\ t_token = [some |-> FALSE, token |-> ""]
    /\ t_called = FALSE

EngineFresh ==
    /\ token = NoToken
    /\ response = NoResponse
    /\ headers_with_auth = EmptyHeaders
    /\ current_url = None
    /\ current_headers = EmptyHeaders
    /\ redirect_count = 0
    /\ cdn_fallbacks = <<>>
    /\ cdn_i = 0
    /\ retry = 0
    /\ redirect_url = None
    /\ direct_headers = EmptyHeaders
    /\ result = Running
    /\ out = NoRequest
    /\ first_upstream = NoRequest
    /\ followed = 0
    /\ cdn_reqs = 0
    /\ last_candidate = 0
    /\ cdn_success = FALSE
    /\ cdn_reply = None
    /\ chain_reqs = 0
    /\ trace = <<>>

\* The engine's variables while no request is served
EngineParked ==
    /\ registry_key = None
    /\ path = None
    /\ method = None
    /\ headers = EmptyHeaders
    /\ body = None
    /\ pc = "idle"
    /\ EngineFresh

\* The engine's variables while only the canonicalizer or the header
\* preparer is exercised
EngineIdle ==
    /\ credentials = [username |-> None, password |-> None]
    /\ EngineParked

Init ==
    /\ CanonIdle
    /\ PrepIdle
    /\ TokenIdle
    /\ BodyIdle
    /\ ConcIdle
    /\ registry_key \in Keys
    /\ path \in Paths
    /\ method \in Methods
    /\ headers \in InboundHeaders
    /\ body = None
    /\ credentials \in CredentialChoices
    /\ pc = "start"
    /\ EngineFresh

blob_vars == <<current_url, current_headers, redirect_count, cdn_fallbacks,
               cdn_i, retry, redirect_url, direct_headers>>

Finish(res) ==
    /\ pc' = "done"
    /\ result' = res

\* proxy.rs:549-555: the key is neither v2 nor in the table
ForwardUnsupported ==
    /\ pc = "start"
    /\ registry_url = None
    /\ Finish(Err("Unsupported registry: " \o registry_key))
    /\ UNCHANGED <<trace, canon_vars, unit_vars, cdn_seen, chain_reqs, input_vars, token, response, headers_with_auth,
                   blob_vars, observer_vars>>

\* The pieces of the canonical path split on / (proxy.rs:680)
parts == Split(formatted_path, "/")

\* proxy.rs:682-690: the Hub API URL of the manifest fall-back
ApiUrl ==
    LET repo == IF parts[3] = "library" THEN parts[4]
                ELSE parts[3] \o "/" \o parts[4]
    IN  "https://hub.docker.com/v2/repositories/" \o repo \o "/tags/" \o parts[6]

\* proxy.rs:583-715 up to the outcome of the first send: the position the
\* engine moves to and what it returns there
GeneralAfterFirst(r) ==
    IF r = SendError
    THEN [pc |-> "done", result |-> Err("transport")]
    ELSE IF registry_url = DockerHub /\ r.status = 401 /\ BearerOffered(r)
    THEN [pc |-> "gen_token", result |-> Running]
    ELSE IF /\ registry_url = DockerHub
            /\ r.status = 403
            /\ Contains(formatted_path, "/manifests/")
            /\ ~is_blob_request
            /\ Len(parts) >= 5
    THEN IF Len(parts) < 6
         THEN [pc |-> "done", result |-> Panic("index out of bounds")]
         ELSE [pc |-> "gen_api", result |-> Running]
    ELSE [pc |-> "done", result |-> Ok(r)]

\* The general flow: the first request to the upstream and its outcome
ForwardGeneral ==
    /\ pc = "start"
    /\ registry_url # None
    /\ ~is_blob_request
    /\ IF ~ValidMethod(method)
       THEN /\ Finish(Err("Unsupported HTTP method: " \o method))
            /\ UNCHANGED <<response, out, first_upstream, trace>>
       ELSE /\ out' = create_request_builder("upstream", method, url, headers_clone, body)
            /\ first_upstream' = out'
            /\ \E r \in Outcomes("upstream") :
                  LET n == GeneralAfterFirst(r)
                  IN  /\ pc' = n.pc
                      /\ result' = n.result
                      /\ trace' = Traced(out', r)
                      /\ response' = IF n.pc \in {"gen_token", "gen_api"}
                                     THEN r ELSE NoResponse
    /\ UNCHANGED <<canon_vars, unit_vars, cdn_seen, chain_reqs, input_vars, token, headers_with_auth, blob_vars,
                   followed, cdn_reqs>>

\* proxy.rs:613-655: the token request of the challenge-driven retry
GeneralToken ==
    /\ pc = "gen_token"
    /\ out' = ChallengeTokenRequest(response)
    /\ \E reply \in TokenOutcomes :
          LET tok == TokenResult(reply)
          IN  /\ IF tok.some
                 THEN /\ headers_with_auth' = WithBearer(headers_clone, tok.token)
                      /\ pc' = "gen_retry"
                      /\ UNCHANGED result
                 ELSE /\ Finish(Ok(response))
                      /\ UNCHANGED headers_with_auth
              /\ trace' = Traced(out', reply)
    /\ UNCHANGED <<canon_vars, unit_vars, cdn_seen, chain_reqs, input_vars, token, response, blob_vars,
                   first_upstream, followed, cdn_reqs>>

\* C13 mutant: a retry that cannot be sent ends the request with its error
GeneralAfterRetryStrict(r) ==
    IF r = SendError THEN Err("transport") ELSE Ok(r)

\* C25 mutant: the response handed back after a failed retry is kept in a
\* place that all invocations share
GeneralAfterRetryShared(r) ==
    IF r = SendError THEN Ok(other.response) ELSE Ok(r)

\* proxy.rs:640-649 and 715: what the engine returns for the outcome of the
\* authenticated retry
GeneralAfterRetry(r) ==
    IF r = SendError THEN Ok(response) ELSE Ok(r)

\* C33 mutant: a 403 for the authenticated retry is handed to the Hub API
\* fall-back
GeneralRetryFallsBack ==
    /\ pc = "gen_retry"
    /\ out' = create_request_builder("retry", method, url, headers_with_auth, body)
    /\ \E r \in Outcomes("retry") :
          /\ IF r # SendError /\ r.status = 403
             THEN pc' = "gen_api" /\ UNCHANGED result
             ELSE Finish(GeneralAfterRetry(r))
          /\ trace' = Traced(out', r)
    /\ UNCHANGED <<canon_vars, unit_vars, cdn_seen, chain_reqs, input_vars, token, response, headers_with_auth,
                   blob_vars, first_upstream, followed, cdn_reqs>>

\* proxy.rs:636-649: the authenticated retry; its response is returned, and
\* the first response when it cannot be sent
GeneralRetry ==
    /\ pc = "gen_retry"
    /\ out' = create_request_builder("retry", method, url, headers_with_auth, body)
    /\ \E r \in Outcomes("retry") :
          /\ Finish(GeneralAfterRetry(r))
          /\ trace' = Traced(out', r)
    /\ UNCHANGED <<canon_vars, unit_vars, cdn_seen, chain_reqs, input_vars, token, response, headers_with_auth,
                   blob_vars, first_upstream, followed, cdn_reqs>>

\* proxy.rs:690-709: the Hub API fall-back of a manifest request
GeneralApi ==
    /\ pc = "gen_api"
    /\ out' = Request("api", "GET", ApiUrl, EmptyHeaders)
    /\ \E r \in Outcomes("api") :
          /\ Finish(IF r # SendError /\ is_success(r.status)
                    THEN Ok(r) ELSE Ok(response))
          /\ trace' = Traced(out', r)
    /\ UNCHANGED <<canon_vars, unit_vars, cdn_seen, chain_reqs, input_vars, token, response, headers_with_auth,
                   blob_vars, first_upstream, followed, cdn_reqs>>

\* ------------------------------------------------------------------------
\* The blob flow: pre-authentication and handle_blob_request
\* ------------------------------------------------------------------------

MAX_REDIRECTS == 10

max_retries == 3

\* C1 mutant: the limit is reached one redirect early
TooManyRedirectsEarly(count) == count >= MAX_REDIRECTS

\* proxy.rs:301
TooManyRedirects(count) == count > MAX_REDIRECTS

AuthRealm == "https://auth.docker.io/token"

AuthService == "registry.docker.io"

\* split(sep).nth(n) with unwrap_or(default); n counts from 0
NthOr(s, sep, n, default) ==
    LET pieces == Split(s, sep)
    IN  IF Len(pieces) >= n + 1 THEN pieces[n + 1] ELSE default

\* str::replace for a one-character pattern
RECURSIVE Replace(_, _, _)
Replace(s, from, to) ==
    IF s = "" THEN ""
    ELSE (IF SubSeq(s, 1, 1) = from THEN to ELSE SubSeq(s, 1, 1))
            \o Replace(SubSeq(s, 2, Len(s)), from, to)

\* proxy.rs:722-736: the scope of the pre-authentication
PreAuthScope ==
    LET extracted == TrimStartMatches(NthOr(formatted_path, "/blobs/", 0, "/v2/library"),
                                      "/v2/")
        repo_path == IF extracted = "" THEN "library/redis" ELSE extracted
    IN  "repository:" \o repo_path \o ":pull"

\* C19 mutant: the token handed to the pipeline is not put into the headers
InitialBlobHeadersNoToken(h, tok) ==
    IF h.accept = None THEN WithAccept(h, "application/octet-stream") ELSE h

\* proxy.rs:244-256: the headers the pipeline starts from
InitialBlobHeaders(h, tok) ==
    LET with_token == IF tok.some THEN WithBearer(h, tok.token) ELSE h
    IN  IF with_token.accept = None
        THEN WithAccept(with_token, "application/octet-stream")
        ELSE with_token

IsBearer(h) ==
    h.authorization # None /\ StartsWith(h.authorization, "Bearer ")

\* proxy.rs:718-765: a Docker Hub blob: the token request, then the pipeline
\* with the token, or without one when the token request failed
ForwardBlobPreAuth ==
    /\ pc = "start"
    /\ registry_url = DockerHub
    /\ is_blob_request
    /\ out' = TokenRequest(AuthRealm, AuthService, PreAuthScope)
    /\ \E reply \in TokenOutcomes :
          /\ token' = TokenResult(reply)
          /\ current_headers' = InitialBlobHeaders(headers_clone, token')
    /\ current_url' = url
    /\ redirect_count' = 0
    /\ pc' = "blob_loop"
    /\ UNCHANGED <<trace, canon_vars, unit_vars, cdn_seen, chain_reqs, input_vars, response, headers_with_auth,
                   cdn_fallbacks, cdn_i, retry, redirect_url, direct_headers,
                   result, first_upstream, followed, cdn_reqs>>

\* proxy.rs:766-775: a blob of another registry enters the pipeline as is
ForwardBlobPlain ==
    /\ pc = "start"
    /\ registry_url # None
    /\ registry_url # DockerHub
    /\ is_blob_request
    /\ token' = NoToken
    /\ current_headers' = InitialBlobHeaders(headers_clone, token')
    /\ current_url' = url
    /\ redirect_count' = 0
    /\ pc' = "blob_loop"
    /\ UNCHANGED <<trace, canon_vars, unit_vars, cdn_seen, chain_reqs, input_vars, response, headers_with_auth,
                   cdn_fallbacks, cdn_i, retry, redirect_url, direct_headers,
                   result, observer_vars>>

\* The text after the first /blobs/ of the URL (proxy.rs:373)
Digest(u) == Split(u, "/blobs/")[2]

\* proxy.rs:381 and 385: the repository put into the second and third
\* candidate
CdnRepo(u) ==
    NthOr(NthOr(u, "/v2/", 1, ""), "/blobs/", 0, "library/redis")

\* proxy.rs:375-387
build_cdn_fallbacks(u) ==
    <<"https://production.cloudflare.docker.com/registry-v2/docker/registry/v2/blobs/sha256/"
        \o SubSeq(Digest(u), 8, 9) \o "/" \o Replace(Digest(u), ":", "/") \o "/data",
      "https://registry.hub.docker.com/v2/library/" \o CdnRepo(u) \o "/blobs/" \o Digest(u),
      "https://registry-cdn.docker.io/v2/library/" \o CdnRepo(u) \o "/blobs/" \o Digest(u)>>

\* C27 mutant: the repeat after a 401 uses up a redirect slot
BlobAfterSendCountsAuth(r) ==
    LET stay == [pc |-> "blob_loop", result |-> Running, current_url |-> current_url,
                 redirect_count |-> redirect_count]
    IN
    IF r = SendError
    THEN [stay EXCEPT !.pc = "done", !.result = Err("transport")]
    ELSE IF is_redirection(r.status) /\ r.location # None
    THEN IF TooManyRedirects(redirect_count + 1)
         THEN [stay EXCEPT !.pc = "done", !.result = Err("Too many redirects"),
                           !.redirect_count = redirect_count + 1]
         ELSE [stay EXCEPT !.current_url = r.location,
                           !.redirect_count = redirect_count + 1]
    ELSE IF r.status = 401 /\ Contains(current_url, DockerHub) /\ BearerOffered(r)
    THEN [stay EXCEPT !.pc = "blob_token", !.redirect_count = redirect_count + 1]
    ELSE IF /\ r.status = 403
            /\ Contains(current_url, DockerHub)
            /\ Len(Split(current_url, "/blobs/")) >= 2
    THEN IF Len(Digest(current_url)) < 9
         THEN [stay EXCEPT !.pc = "done", !.result = Panic("slice out of range")]
         ELSE [stay EXCEPT !.pc = "cdn"]
    ELSE [stay EXCEPT !.pc = "done", !.result = Ok(r)]

\* C23 mutant: a redirect without a Location is counted before the response
\* is returned
BlobAfterSendCountsAll(r) ==
    LET stay == [pc |-> "blob_loop", result |-> Running, current_url |-> current_url,
                 redirect_count |-> redirect_count]
    IN
    IF r = SendError
    THEN [stay EXCEPT !.pc = "done", !.result = Err("transport")]
    ELSE IF is_redirection(r.status) /\ r.location # None
    THEN IF TooManyRedirects(redirect_count + 1)
         THEN [stay EXCEPT !.pc = "done", !.result = Err("Too many redirects"),
                           !.redirect_count = redirect_count + 1]
         ELSE [stay EXCEPT !.current_url = r.location,
                           !.redirect_count = redirect_count + 1]
    ELSE IF is_redirection(r.status)
    THEN [stay EXCEPT !.pc = "done", !.result = Ok(r),
                      !.redirect_count = redirect_count + 1]
    ELSE IF r.status = 401 /\ Contains(current_url, DockerHub) /\ BearerOffered(r)
    THEN [stay EXCEPT !.pc = "blob_token"]
    ELSE IF /\ r.status = 403
            /\ Contains(current_url, DockerHub)
            /\ Len(Split(current_url, "/blobs/")) >= 2
    THEN IF Len(Digest(current_url)) < 9
         THEN [stay EXCEPT !.pc = "done", !.result = Panic("slice out of range")]
         ELSE [stay EXCEPT !.pc = "cdn"]
    ELSE [stay EXCEPT !.pc = "done", !.result = Ok(r)]

\* proxy.rs:293-531 from the outcome of the pipeline's send on: the position
\* the engine moves to, what it returns there, and the pipeline's locals
BlobAfterSend(r) ==
    LET stay == [pc |-> "blob_loop", result |-> Running, current_url |-> current_url,
                 redirect_count |-> redirect_count]
    IN
    IF r = SendError
    THEN [stay EXCEPT !.pc = "done", !.result = Err("transport")]
    ELSE IF is_redirection(r.status) /\ r.location # None
    THEN IF TooManyRedirects(redirect_count + 1)
         THEN [stay EXCEPT !.pc = "done", !.result = Err("Too many redirects"),
                           !.redirect_count = redirect_count + 1]
         ELSE [stay EXCEPT !.current_url = r.location,
                           !.redirect_count = redirect_count + 1]
    ELSE IF r.status = 401 /\ Contains(current_url, DockerHub) /\ BearerOffered(r)
    THEN [stay EXCEPT !.pc = "blob_token"]
    ELSE IF /\ r.status = 403
            /\ Contains(current_url, DockerHub)
            /\ Len(Split(current_url, "/blobs/")) >= 2
    THEN IF Len(Digest(current_url)) < 9
         THEN [stay EXCEPT !.pc = "done", !.result = Panic("slice out of range")]
         ELSE [stay EXCEPT !.pc = "cdn"]
    ELSE [stay EXCEPT !.pc = "done", !.result = Ok(r)]

\* One turn of the pipeline's loop (proxy.rs:273-532): the request to
\* current_url and the handling of its outcome
BlobSend ==
    /\ pc = "blob_loop"
    /\ IF ~ValidMethod(method)
       THEN /\ Finish(Err("Unsupported HTTP method: " \o method))
            /\ UNCHANGED <<response, current_url, redirect_count, cdn_fallbacks,
                           cdn_i, retry, observer_vars>>
       ELSE /\ out' = create_request_builder("blob", method, current_url, current_headers,
                                                 body)
            /\ first_upstream' =
                   IF first_upstream = NoRequest THEN out' ELSE first_upstream
            /\ followed' = IF followed < redirect_count THEN followed + 1 ELSE followed
            /\ cdn_i' = 0
            /\ retry' = 0
            /\ cdn_reqs' = 0
            /\ chain_reqs' = IF chain_reqs < 0 THEN chain_reqs ELSE chain_reqs + 1
            /\ \E r \in Outcomes("blob") :
                  LET n == BlobAfterSend(r)
                  IN  /\ pc' = n.pc
                      /\ result' = n.result
                      /\ current_url' = n.current_url
                      /\ redirect_count' = n.redirect_count
                      /\ response' = IF n.pc \in {"blob_token", "cdn"}
                                     THEN r ELSE NoResponse
                      /\ cdn_fallbacks' = IF n.pc = "cdn"
                                          THEN build_cdn_fallbacks(current_url)
                                          ELSE <<>>
    /\ UNCHANGED <<trace, canon_vars, unit_vars, cdn_seen, input_vars, token,
                   headers_with_auth, current_headers, redirect_url,
                   direct_headers>>

\* proxy.rs:331-348: the token request after a 401; with the token the loop
\* repeats, without it the 401 is returned
BlobToken ==
    /\ pc = "blob_token"
    /\ out' = ChallengeTokenRequest(response)
    /\ \E reply \in TokenOutcomes :
          LET tok == TokenResult(reply)
          IN  IF tok.some
              THEN /\ current_headers' = WithBearer(current_headers, tok.token)
                   /\ pc' = "blob_loop"
                   /\ UNCHANGED result
              ELSE /\ Finish(Ok(response))
                   /\ UNCHANGED current_headers
    /\ chain_reqs' = -1
    /\ UNCHANGED <<trace, canon_vars, unit_vars, cdn_seen, input_vars, token, response,
                   headers_with_auth, current_url, redirect_count, cdn_fallbacks, cdn_i, retry,
                   redirect_url, direct_headers, first_upstream, followed,
                   cdn_reqs>>

\* ------------------------------------------------------------------------
\* The CDN fall-back sub-routine (proxy.rs:370-526)
\* ------------------------------------------------------------------------

\* proxy.rs:487-495: the scope of the direct fall-back's token
DirectScope(u) ==
    "repository:"
        \o NthOr(NthOr(u, "/v2/", 1, "library/redis"), "/blobs/", 0, "library/redis")
        \o ":pull"

\* How a send ended: with a transport error, a 2xx, a 3xx that names a
\* Location, or any other response
ReplyClass(r) ==
    IF r = SendError THEN "error"
    ELSE IF r.status \in 200..299 THEN "success"
    ELSE IF r.status \in 300..399 /\ r.location # None THEN "redirect"
    ELSE "refused"

\* The move past the current candidate: to the next one, or to the direct
\* fall-back after the last, where the loops' indices are gone
NextCandidate ==
    IF cdn_i + 1 < Len(cdn_fallbacks)
    THEN [pc |-> "cdn", result |-> Running, cdn_i |-> cdn_i + 1, retry |-> 0]
    ELSE [pc |-> "direct_token", result |-> Running, cdn_i |-> 0, retry |-> 0]

\* C2 mutant: a network error on the last attempt is retried once more
AttemptsLeftOneMore == retry + 1 <= max_retries

\* proxy.rs:417: another turn of the retry loop is left
AttemptsLeft == retry + 1 < max_retries

\* C20 mutant: a candidate's 2xx is passed over like any other status
CdnAfterSendPassesOver(r) ==
    IF r = SendError
    THEN IF AttemptsLeft
         THEN [pc |-> "cdn", result |-> Running, cdn_i |-> cdn_i, retry |-> retry + 1]
         ELSE NextCandidate
    ELSE IF is_redirection(r.status) /\ r.location # None
    THEN [pc |-> "cdn_redirect", result |-> Running, cdn_i |-> cdn_i, retry |-> retry]
    ELSE NextCandidate

\* C21 mutant: a candidate that refuses is tried again like one that cannot
\* be reached
CdnAfterSendRetriesRefusals(r) ==
    IF r = SendError \/ (~is_success(r.status) /\ ~is_redirection(r.status))
    THEN IF AttemptsLeft
         THEN [pc |-> "cdn", result |-> Running, cdn_i |-> cdn_i, retry |-> retry + 1]
         ELSE NextCandidate
    ELSE IF is_success(r.status)
    THEN [pc |-> "done", result |-> Ok(r), cdn_i |-> cdn_i, retry |-> retry]
    ELSE IF is_redirection(r.status) /\ r.location # None
    THEN [pc |-> "cdn_redirect", result |-> Running, cdn_i |-> cdn_i, retry |-> retry]
    ELSE NextCandidate

\* proxy.rs:428-474 from the outcome of a candidate's send on
CdnAfterSend(r) ==
    IF r = SendError
    THEN IF AttemptsLeft
         THEN [pc |-> "cdn", result |-> Running, cdn_i |-> cdn_i, retry |-> retry + 1]
         ELSE NextCandidate
    ELSE IF is_success(r.status)
    THEN [pc |-> "done", result |-> Ok(r), cdn_i |-> cdn_i, retry |-> retry]
    ELSE IF is_redirection(r.status) /\ r.location # None
    THEN [pc |-> "cdn_redirect", result |-> Running, cdn_i |-> cdn_i, retry |-> retry]
    ELSE NextCandidate

\* One attempt on the current candidate (proxy.rs:417-475)
CdnAttempt ==
    /\ pc = "cdn"
    /\ out' = Request("cdn", "GET", cdn_fallbacks[cdn_i + 1],
                      WithAccept(EmptyHeaders, CdnAccept))
    /\ \E r \in Outcomes("cdn") :
          LET n == CdnAfterSend(r)
          IN  /\ pc' = n.pc
              /\ result' = n.result
              /\ cdn_i' = n.cdn_i
              /\ retry' = n.retry
              /\ redirect_url' = IF n.pc = "cdn_redirect"
                                 THEN r.location ELSE redirect_url
              /\ cdn_success' = (r # SendError /\ is_success(r.status))
              /\ cdn_reply' = ReplyClass(r)
    /\ cdn_reqs' = cdn_reqs + 1
    /\ last_candidate' = cdn_i + 1
    /\ UNCHANGED <<trace, canon_vars, unit_vars, chain_reqs, input_vars, token, response, headers_with_auth,
                   current_url, current_headers, redirect_count, cdn_fallbacks,
                   direct_headers, first_upstream, followed>>

\* proxy.rs:448-468: the one manual GET to a candidate's Location
CdnRedirect ==
    /\ pc = "cdn_redirect"
    /\ out' = Request("cdn_redirect", "GET", redirect_url,
                      WithAccept(EmptyHeaders, CdnAccept))
    /\ redirect_url' = None
    /\ \E r \in Outcomes("cdn_redirect") :
          LET n == IF r # SendError /\ is_success(r.status)
                   THEN [pc |-> "done", result |-> Ok(r), cdn_i |-> cdn_i,
                         retry |-> retry]
                   ELSE NextCandidate
          IN  /\ pc' = n.pc
              /\ result' = n.result
              /\ cdn_i' = n.cdn_i
              /\ retry' = n.retry
              /\ cdn_success' = (r # SendError /\ is_success(r.status))
              /\ cdn_reply' = ReplyClass(r)
    /\ cdn_reqs' = cdn_reqs + 1
    /\ UNCHANGED <<trace, canon_vars, unit_vars, last_candidate, chain_reqs, input_vars, token, response, headers_with_auth,
                   current_url, current_headers, redirect_count, cdn_fallbacks,
                   direct_headers, first_upstream, followed>>

\* proxy.rs:481-509: the fresh token of the direct fall-back
DirectToken ==
    /\ pc = "direct_token"
    /\ out' = TokenRequest(AuthRealm, AuthService, DirectScope(current_url))
    /\ \E reply \in TokenOutcomes :
          LET tok == TokenResult(reply)
          IN  direct_headers' =
                IF tok.some THEN WithBearer(DirectHeaders, tok.token)
                ELSE DirectHeaders
    /\ pc' = "direct_send"
    /\ cdn_reqs' = cdn_reqs + 1
    /\ UNCHANGED <<trace, canon_vars, unit_vars, cdn_seen, chain_reqs, input_vars, token, response, headers_with_auth,
                   current_url, current_headers, redirect_count, cdn_fallbacks,
                   cdn_i, retry, redirect_url, result, first_upstream, followed>>

\* C22 mutant: the direct GET's own outcome is returned whatever it is
DirectAfterSendOwn(r) ==
    IF r = SendError THEN Err("transport") ELSE Ok(r)

\* proxy.rs:515-531: what the pipeline returns for the outcome of the direct
\* GET
DirectAfterSend(r) ==
    IF r # SendError /\ is_success(r.status) THEN Ok(r) ELSE Ok(response)

\* proxy.rs:511-531: the direct GET; a 2xx is returned, otherwise the 403
DirectSend ==
    /\ pc = "direct_send"
    /\ out' = Request("direct", "GET", current_url, direct_headers)
    /\ \E r \in Outcomes("direct") : Finish(DirectAfterSend(r))
    /\ cdn_reqs' = cdn_reqs + 1
    /\ UNCHANGED <<trace, canon_vars, unit_vars, cdn_seen, chain_reqs, input_vars, token, response, headers_with_auth,
                   blob_vars, first_upstream, followed>>

Next ==
    \/ ForwardUnsupported
    \/ ForwardGeneral
    \/ GeneralToken
    \/ GeneralRetry
    \/ GeneralApi
    \/ ForwardBlobPreAuth
    \/ ForwardBlobPlain
    \/ BlobSend
    \/ BlobToken
    \/ CdnAttempt
    \/ CdnRedirect
    \/ DirectToken
    \/ DirectSend

Spec == Init /\ [][Next]_vars

\* Every outbound call returns (a response or an error), so the engine takes
\* its next step whenever it has one
LiveSpec == Init /\ [][Next]_vars /\ WF_vars(Next)

\* ------------------------------------------------------------------------
\* handle_registry_request: what the client receives for the engine's result
\* ------------------------------------------------------------------------

\* registry.rs:69-109: an upstream response is handed on with its status
\* (body: the upstream's bytes, not modelled further); an error of the
\* engine becomes a 500 whose body names it; a panic of the request's task
\* leaves the client without a response
HttpResponse(res) ==
    IF res.kind = "ok"
    THEN [kind |-> "response", status |-> res.resp.status, body |-> "<upstream>"]
    ELSE IF res.kind = "err"
    THEN [kind |-> "response", status |-> 500,
          body |-> "Failed to forward request: " \o res.msg]
    ELSE [kind |-> res.kind, status |-> 0, body |-> ""]

\* Display of StatusCode: the code and its canonical reason
StatusText(status) ==
    CASE status = 200 -> "200 OK"
      [] status = 206 -> "206 Partial Content"
      [] status = 404 -> "404 Not Found"
      [] status = 503 -> "503 Service Unavailable"
      [] OTHER -> "<unknown status code>"

\* The bytes of U+FFFD in UTF-8
ReplacementCharacter == <<239, 191, 189>>

\* String::from_utf8_lossy(bytes).to_string() as bytes, for bodies of ASCII
\* bytes, two-byte sequences, and bytes that are no part of any sequence:
\* every byte that does not belong to a well-formed sequence becomes U+FFFD
RECURSIVE from_utf8_lossy(_)
from_utf8_lossy(bytes) ==
    IF bytes = <<>> THEN <<>>
    ELSE IF bytes[1] < 128
    THEN <<bytes[1]>> \o from_utf8_lossy(Tail(bytes))
    ELSE IF /\ bytes[1] \in 194..223
            /\ Len(bytes) >= 2
            /\ bytes[2] \in 128..191
    THEN <<bytes[1], bytes[2]>> \o from_utf8_lossy(Tail(Tail(bytes)))
    ELSE ReplacementCharacter \o from_utf8_lossy(Tail(bytes))

\* registry.rs:69-104: the handler's response for an upstream response of
\* the engine, from its status, its body and the outcome of reading the body
ClientResponse(status, bytes, read) ==
    IF ~read
    THEN [status |-> 500, body |-> TextBody("Failed to read response body: error")]
    ELSE IF is_success(status)
    THEN [status |-> status, body |-> BytesBody(bytes)]
    ELSE IF bytes = <<>>
    THEN [status |-> status,
          body |-> TextBody("Upstream error: " \o StatusText(status))]
    ELSE [status |-> status, body |-> BytesBody(from_utf8_lossy(bytes))]

\* ------------------------------------------------------------------------
\* Properties of the engine (checked under Spec, C3 under LiveSpec)
\* ------------------------------------------------------------------------

\* The host and the path of an https URL
UrlHost(u) ==
    LET rest == SubSeq(u, Len("https://") + 1, Len(u))
        i == IndexOf(rest, "/")
    IN  IF i = 0 THEN rest ELSE SubSeq(rest, 1, i - 1)

UrlPath(u) ==
    LET rest == SubSeq(u, Len("https://") + 1, Len(u))
        i == IndexOf(rest, "/")
    IN  IF i = 0 THEN "" ELSE SubSeq(rest, i, Len(rest))

\* The upstream host of the inbound request: Table[k], Docker Hub for v2
UpstreamHost ==
    IF registry_key = "v2" THEN "registry-1.docker.io" ELSE Registries[registry_key]

\* C1: the blob pipeline follows at most 10 redirects in one invocation; a
\* further redirect with a Location, and only that, ends it with the error
\* Too many redirects, after which nothing is sent.
C1_AtMostTenRedirects ==
    /\ followed <= MAX_REDIRECTS
    /\ redirect_count > MAX_REDIRECTS =>
          /\ pc = "done"
          /\ result = Err("Too many redirects")
          /\ followed = MAX_REDIRECTS
    /\ result = Err("Too many redirects") =>
          /\ redirect_count = MAX_REDIRECTS + 1
          /\ pc = "done"

\* C1 witness: ten redirects were followed and the eleventh was refused.
C1_Witness ==
    /\ followed = MAX_REDIRECTS
    /\ out.kind = "blob"
    /\ result = Err("Too many redirects")

\* C2 as stated: one run of the CDN fall-back sends at most 10 requests.
C2_AtMostTenRequests == cdn_reqs <= 10

\* C2 amended: one run of the CDN fall-back sends at most 14 requests: for
\* each of the three candidates at most max_retries attempts and one
\* follow-up of a redirect, then one token request and one direct GET.
C2_AtMostFourteenRequests ==
    /\ cdn_reqs <= 3 * (max_retries + 1) + 2
    /\ pc \in {"cdn", "cdn_redirect"} => cdn_reqs <= (cdn_i + 1) * (max_retries + 1)

\* C2 witness: a run of the fall-back that ended after 14 requests.
C2_Witness ==
    /\ pc = "done"
    /\ out.kind = "direct"
    /\ cdn_reqs = 14

\* C3: every invocation of the blob pipeline eventually returns.
C3_BlobRequestReturns == <>(pc = "done")

\* C4: a Bearer token is attached to one outbound request only; in
\* particular two requests the pipeline sends one after the other, with no
\* token request between them, never both carry the pipeline's token.
C4_TokenUsedOnce ==
    [][~(/\ out.kind = "blob"
         /\ out'.kind = "blob"
         /\ IsBearer(out.headers)
         /\ out'.headers.authorization = out.headers.authorization)]_vars

\* C8 as stated: the first upstream request goes to Table[k], and its path
\* starts with /v2 if and only if that host is Docker Hub.
C8_V2IffDockerHub ==
    first_upstream.kind # None =>
        /\ UrlHost(first_upstream.url) = UpstreamHost
        /\ StartsWith(UrlPath(first_upstream.url), "/v2")
              <=> UrlHost(first_upstream.url) = "registry-1.docker.io"

\* C8 amended: the first request to the upstream goes to Table[k] (Docker
\* Hub for v2); its path starts with /v2 when that host is Docker Hub, and is
\* the inbound path unchanged for any other host.
C8_HostAndPath ==
    first_upstream.kind # None =>
        /\ UrlHost(first_upstream.url) = UpstreamHost
        /\ UpstreamHost = "registry-1.docker.io"
              => StartsWith(UrlPath(first_upstream.url), "/v2")
        /\ UpstreamHost # "registry-1.docker.io"
              => UrlPath(first_upstream.url) = path

\* C8 witness: a request to quay.io went out with a path starting with /v2.
C8_Witness ==
    /\ first_upstream.kind # None
    /\ registry_key = "quay"
    /\ UrlHost(first_upstream.url) = "quay.io"
    /\ StartsWith(UrlPath(first_upstream.url), "/v2")

\* The Host a request goes out with: its Host header, and the host of its
\* URL when it has none
WireHost(req) ==
    IF req.headers.host # None THEN req.headers.host ELSE UrlHost(req.url)

\* C9 as stated: every outbound request carries the upstream host as Host.
C9_HostEveryRequest ==
    out.kind # None => WireHost(out) = UpstreamHost

\* C9 amended: the requests built from the prepared headers (first upstream
\* request, authenticated retry, every hop of the blob pipeline) carry the
\* upstream host as Host header; token, Hub-API, CDN, CDN-redirect and
\* direct requests are built without a Host header.
C9_HostOfPreparedRequests ==
    /\ out.kind \in {"upstream", "retry", "blob"} => out.headers.host = UpstreamHost
    /\ out.kind \in {"token", "api", "cdn", "cdn_redirect", "direct"}
          => out.headers.host = None

\* C9 witness: a CDN candidate was requested, with no Host header of the
\* upstream.
C9_Witness ==
    /\ out.kind = "cdn"
    /\ UrlHost(out.url) = "production.cloudflare.docker.com"

\* The Authorization values the Token Client's tokens give
TokenAuthorizations ==
    {"Bearer " \o TokenResult(reply).token :
        reply \in {rp \in TokenOutcomes : TokenResult(rp).some}}

\* C10 as stated: with credentials unset, no outbound request carries an
\* Authorization header but those that got a token from the Token Client.
C10_NoAuthorizationUnlessToken ==
    (~(credentials.username # None /\ credentials.password # None) /\ out.kind # None) =>
        \/ out.headers.authorization = None
        \/ out.headers.authorization \in TokenAuthorizations

\* C10 amended: with credentials unset, an outbound request carries an
\* Authorization header only if it got a token from the Token Client, or if
\* it is built from the prepared headers and the client sent that very
\* Authorization header.
C10_AuthorizationTokenOrClient ==
    (~(credentials.username # None /\ credentials.password # None) /\ out.kind # None) =>
        \/ out.headers.authorization = None
        \/ out.headers.authorization \in TokenAuthorizations
        \/ /\ out.kind \in {"upstream", "blob"}
           /\ out.headers.authorization = headers.authorization

\* C10 witness: with credentials unset, the first upstream request went out
\* with the Authorization header the client sent.
C10_Witness ==
    /\ credentials.username = None
    /\ out.kind = "upstream"
    /\ out.headers.authorization = "Basic Y2xpZW50"

\* The key is neither v2 nor a key of the Registry Table
UnsupportedKey == registry_key # "v2" /\ registry_key \notin DOMAIN Registries

\* C11 as stated: for an unsupported registry key no outbound request is
\* made and the client receives 500 with body Unsupported registry: <key>.
C11_UnsupportedBody ==
    UnsupportedKey =>
        /\ out = NoRequest
        /\ pc = "done" =>
              /\ HttpResponse(result).status = 500
              /\ HttpResponse(result).body = "Unsupported registry: " \o registry_key

\* C11 amended: for an unsupported registry key no outbound request is made
\* and the client receives 500 with body
\* Failed to forward request: Unsupported registry: <key>.
C11_UnsupportedPrefixedBody ==
    UnsupportedKey =>
        /\ out = NoRequest
        /\ first_upstream = NoRequest
        /\ pc = "done" =>
              /\ result = Err("Unsupported registry: " \o registry_key)
              /\ HttpResponse(result).kind = "response"
              /\ HttpResponse(result).status = 500
              /\ HttpResponse(result).body =
                    "Failed to forward request: Unsupported registry: " \o registry_key

\* C11 witness: the request for the key unknown was answered.
C11_Witness ==
    /\ registry_key = "unknown"
    /\ pc = "done"
    /\ HttpResponse(result).status = 500

\* The verbs the specification calls supported
SupportedVerbs == {"GET", "POST", "PUT", "DELETE", "HEAD", "PATCH"}

\* C12: for a method outside the six supported verbs (and a supported
\* registry) forward_request sends no request at all, neither to the upstream
\* nor to the token realm, and fails with the unsupported-method error.
C12_UnsupportedMethodNoRequest ==
    (method \notin SupportedVerbs /\ ~UnsupportedKey) =>
        /\ out = NoRequest
        /\ pc = "done" => result = Err("Unsupported HTTP method: " \o method)

\* C13: in the general flow against Docker Hub a 401 with a Bearer challenge
\* leads to one token request (none was sent before it) and then to at most
\* one retry, of the same method and URL with the token as Bearer; after the
\* retry the request is over and returns the retry's response whatever its
\* status, or the first 401 when the retry could not be sent; when no token
\* is obtained the first 401 is returned.
C13_OneTokenOneRetry ==
    /\ pc = "gen_token" =>
          /\ out = first_upstream
          /\ out.kind = "upstream"
          /\ response.status = 401
          /\ response.from = "upstream"
    /\ pc = "gen_retry" =>
          /\ out.kind = "token"
          /\ response.status = 401
          /\ response.from = "upstream"
    /\ (out.kind = "token" /\ first_upstream.kind = "upstream") =>
          \/ pc = "gen_retry"
          \/ pc = "done" /\ result = Ok(response) /\ response.status = 401
    /\ out.kind = "retry" =>
          /\ pc = "done"
          /\ out.method = method
          /\ out.url = first_upstream.url
          /\ out.headers.authorization \in TokenAuthorizations
          /\ result.kind = "ok"
          /\ \/ result.resp.from = "retry"
             \/ result.resp = response /\ response.status = 401
                   /\ response.from = "upstream"

\* C13 witness: the retry was answered with 403, and that is what the
\* request returns.
C13_Witness ==
    /\ out.kind = "retry"
    /\ pc = "done"
    /\ result.kind = "ok"
    /\ result.resp.from = "retry"
    /\ result.resp.status = 403

\* C14: a 401 from an upstream other than Docker Hub never leads to a token
\* request or a retry: the general flow to such an upstream makes one request
\* and returns its response, and the blob pipeline asks for a token only
\* after a 401 to a request that went to registry-1.docker.io.
C14_NoTokenForOtherUpstreams ==
    /\ (~UnsupportedKey /\ UpstreamHost # "registry-1.docker.io"
            /\ first_upstream.kind = "upstream") =>
          /\ out = first_upstream
          /\ pc = "done"
          /\ result.kind = "ok" => result.resp.from = "upstream"
    /\ pc = "blob_token" => UrlHost(out.url) = "registry-1.docker.io"

\* C15: a Docker Hub non-blob request for a path with /manifests/ whose first
\* response is 403 ends in one of two ways only, after one GET to the Hub
\* API: with that GET's response when it is 2xx, with the 403 otherwise.
C15_ManifestFallbackOutcomes ==
    (/\ first_upstream.kind = "upstream"
     /\ UpstreamHost = "registry-1.docker.io"
     /\ Contains(UrlPath(first_upstream.url), "/manifests/")) =>
        /\ result.kind # "panic"
        /\ pc = "gen_api" => out.kind = "upstream" /\ response.status = 403
        /\ out.kind = "api" =>
              /\ pc = "done"
              /\ \/ result = Ok(response) /\ response.status = 403
                 \/ /\ result.kind = "ok"
                    /\ result.resp.from = "api"
                    /\ is_success(result.resp.status)

\* The inbound request is for a blob
BlobPath == Contains(path, "/blobs/")

\* The repository of an inbound blob path that names its namespace: the
\* text between the first / and /blobs/
InboundRepo ==
    LET head == Split(path, "/blobs/")[1]
    IN  SubSeq(head, 2, Len(head))

\* C19: for a blob request to Docker Hub the one request sent before the
\* first request to the upstream is a token request for the scope
\* repository:<repo>:pull; the first upstream request carries the token as
\* Bearer when it was obtained, and the Authorization the client sent (or
\* none) when it was not. A blob request to another registry reaches the
\* pipeline with no request sent and no token.
C19_PreAuthBeforeFirstRequest ==
    /\ (BlobPath /\ ~UnsupportedKey /\ UpstreamHost = "registry-1.docker.io") =>
          /\ pc = "start" => out = NoRequest
          /\ (pc # "start" /\ first_upstream = NoRequest) =>
                /\ out.kind = "token"
                /\ out.url = "https://auth.docker.io/token?service=registry.docker.io"
                                \o "&scope=repository:" \o InboundRepo \o ":pull"
          /\ first_upstream # NoRequest =>
                /\ first_upstream.kind = "blob"
                /\ first_upstream.headers.authorization =
                      IF token.some THEN "Bearer " \o token.token
                      ELSE headers.authorization
    /\ (BlobPath /\ ~UnsupportedKey /\ UpstreamHost # "registry-1.docker.io") =>
          /\ ~token.some
          /\ first_upstream = NoRequest => out = NoRequest
          /\ first_upstream # NoRequest =>
                /\ first_upstream.kind = "blob"
                /\ first_upstream.headers.authorization = headers.authorization

\* C19 witness: the pre-authentication gave a token and the first request to
\* Docker Hub went out with it.
C19_Witness ==
    /\ registry_key = "docker"
    /\ token.some
    /\ first_upstream.kind = "blob"
    /\ first_upstream.headers.authorization = "Bearer T"

\* The number of the candidate a CDN request went to, 0 for another URL
CandidateOf(u) ==
    IF \E k \in 1..Len(cdn_fallbacks) : cdn_fallbacks[k] = u
    THEN CHOOSE k \in 1..Len(cdn_fallbacks) : cdn_fallbacks[k] = u
    ELSE 0

\* C20: every request of the CDN fall-back to a candidate goes to the
\* candidate contacted last or to the one after it, starting with candidate
\* 1 of 3; and once a candidate or its redirect target has answered 2xx the
\* pipeline is over with that answer as its result and that request as the
\* last one sent.
C20_InOrderUntilSuccess ==
    [][/\ pc = "cdn" =>
             /\ out'.kind = "cdn"
             /\ Len(cdn_fallbacks) = 3
             /\ CandidateOf(out'.url) \in {last_candidate, last_candidate + 1}
             /\ CandidateOf(out'.url) >= 1
       /\ pc = "cdn_redirect" =>
             /\ out'.kind = "cdn_redirect"
             /\ out.kind = "cdn"
       /\ cdn_success' =>
             /\ pc' = "done"
             /\ result'.kind = "ok"
             /\ is_success(result'.resp.status)
             /\ result'.resp.from = out'.kind
             /\ out'.kind \in {"cdn", "cdn_redirect"}]_vars

\* C20 witness: the second candidate answered 2xx after the first had not,
\* and the pipeline returned its answer.
C20_Witness ==
    /\ cdn_success
    /\ pc = "done"
    /\ out.kind = "cdn"
    /\ out.url = cdn_fallbacks[2]
    /\ last_candidate = 2
    /\ result.resp.status = 200

\* The fall-back has left the candidate numbered k for the one after it, or
\* for the direct fall-back after the third; stated on the state after the
\* step
MovedPast(k) ==
    IF k < 3
    THEN pc' = "cdn" /\ cdn_i' + 1 = k + 1 /\ retry' = 0
    ELSE pc' = "direct_token"

\* C21: a send to a candidate that ends in a network error is followed by
\* another attempt on the same candidate while fewer than 3 attempts were
\* made on it, and by the move to the next candidate after the third; a
\* response that is neither 2xx nor a redirect to follow, and a redirect's
\* one follow-up GET that is not answered 2xx, move to the next candidate at
\* once.
C21_RetryOnlyNetworkErrors ==
    [][/\ (pc = "cdn" /\ cdn_reply' = "error") =>
             IF retry + 1 < 3
             THEN pc' = "cdn" /\ cdn_i' = cdn_i /\ retry' = retry + 1
             ELSE MovedPast(cdn_i + 1)
       /\ (pc = "cdn" /\ cdn_reply' = "refused") => MovedPast(cdn_i + 1)
       /\ (pc = "cdn" /\ cdn_reply' = "redirect") =>
             pc' = "cdn_redirect" /\ cdn_i' = cdn_i
       /\ (pc = "cdn_redirect" /\ cdn_reply' # "success") =>
             MovedPast(cdn_i + 1)
       /\ pc = "cdn" => retry < 3 /\ cdn_i < 3]_vars

\* C21 witness: the second candidate could not be reached twice and is about
\* to be tried a third time.
C21_Witness ==
    /\ pc = "cdn"
    /\ cdn_i = 1
    /\ retry = 2
    /\ cdn_reply = "error"
    /\ last_candidate = 2

\* C22: the step that sends the direct GET, which follows the third
\* candidate, ends the pipeline with a response and not an error: the direct
\* GET's own answer only if that is 2xx, and otherwise the 403 the pipeline
\* got from its request to current_url, never an answer of a CDN.
C22_DirectFailureReturns403 ==
    [][pc = "direct_send" =>
          /\ last_candidate = 3
          /\ out'.kind = "direct"
          /\ pc' = "done"
          /\ result'.kind = "ok"
          /\ IF result'.resp.from = "direct"
             THEN result'.resp.status \in 200..299
             ELSE /\ result'.resp = response
                  /\ result'.resp.status = 403
                  /\ result'.resp.from = "blob"]_vars

\* C22 witness: the token of the direct fall-back was not obtained, the
\* direct GET went out without Authorization, and the 403 was returned.
C22_Witness ==
    /\ pc = "done"
    /\ out.kind = "direct"
    /\ out.headers.authorization = None
    /\ last_candidate = 3
    /\ result.kind = "ok"
    /\ result.resp.status = 403
    /\ result.resp.from = "blob"

C27_ReauthKeepsUrlAndCount ==
    [][/\ (pc = "blob_loop" /\ pc' = "blob_token") =>
             /\ response'.status = 401
             /\ BearerOffered(response')
             /\ current_url' = current_url
             /\ redirect_count' = redirect_count
       /\ (pc = "blob_loop" /\ pc' = "done" /\ result'.kind = "ok"
              /\ result'.resp.status = 401) =>
             /\ result'.resp.from = "blob"
             /\ ~(Contains(current_url, "registry-1.docker.io")
                    /\ BearerOffered(result'.resp))
       /\ pc = "blob_token" =>
             /\ out'.kind = "token"
             /\ current_url' = current_url
             /\ redirect_count' = redirect_count
             /\ IF pc' = "blob_loop"
                THEN /\ current_headers'.authorization \in TokenAuthorizations
                     /\ current_headers' =
                           [current_headers EXCEPT
                              !.authorization = current_headers'.authorization]
                ELSE /\ pc' = "done"
                     /\ result' = Ok(response)
                     /\ response.status = 401
                     /\ current_headers' = current_headers]_vars

\* C27 witness: after one redirect Docker Hub answered 401, the token
\* exchange gave a token to a pipeline that had none, and the request to
\* the same URL is about to be repeated.
C27_Witness ==
    /\ pc = "blob_loop"
    /\ out.kind = "token"
    /\ ~token.some
    /\ redirect_count = 1
    /\ current_url = HubLocation
    /\ response.status = 401
    /\ current_headers.authorization = "Bearer T"

\* C28: for a blob request whose upstream is Docker Hub, a 403 that the
\* pipeline's own request received is returned only after the CDN fall-back
\* has run to its end, whether or not redirects were followed before; and
\* what is returned from the fall-back is a 2xx.
C28_FallbackOnEvery403 ==
    (/\ BlobPath
     /\ ~UnsupportedKey
     /\ UpstreamHost = "registry-1.docker.io"
     /\ pc = "done"
     /\ result.kind = "ok") =>
        /\ (result.resp.status = 403 /\ result.resp.from = "blob") =>
              /\ out.kind = "direct"
              /\ last_candidate = 3
        /\ result.resp.from \in {"cdn", "cdn_redirect", "direct"} =>
              result.resp.status \in 200..299

\* The repository and the digest of a blob URL of Docker Hub: the text
\* between /v2/ and /blobs/, and the text after /blobs/
RepoOfUrl(u) ==
    LET rest == SubSeq(u, Len("https://registry-1.docker.io/v2/") + 1, Len(u))
    IN  SubSeq(rest, 1, IndexOf(rest, "/blobs/") - 1)

DigestOfUrl(u) ==
    LET i == IndexOf(u, "/blobs/")
    IN  SubSeq(u, i + Len("/blobs/"), Len(u))

\* C29: when the fall-back is entered for the blob URL
\* https://registry-1.docker.io/v2/<repo>/blobs/<digest>, its second and
\* third candidates are https://registry.hub.docker.com/v2/<repo>/blobs/<digest>
\* and https://registry-cdn.docker.io/v2/<repo>/blobs/<digest>.
C29_CandidateUrls ==
    (/\ cdn_fallbacks # <<>>
     /\ StartsWith(current_url, "https://registry-1.docker.io/v2/")) =>
        /\ cdn_fallbacks[2] =
              "https://registry.hub.docker.com/v2/" \o RepoOfUrl(current_url)
                  \o "/blobs/" \o DigestOfUrl(current_url)
        /\ cdn_fallbacks[3] =
              "https://registry-cdn.docker.io/v2/" \o RepoOfUrl(current_url)
                  \o "/blobs/" \o DigestOfUrl(current_url)

\* C30: forward_request ends with a response of an upstream or with an
\* error, and with an error only when the registry key or the method is not
\* supported, more than ten redirects were met, or the send of the first
\* request of the general flow or of a request of the blob pipeline's loop
\* failed; a failure in the token exchange, the authenticated retry, the Hub
\* API fall-back, a CDN candidate or the direct GET leaves it returning a
\* response.
C30_FallbackFailuresReturnResponse ==
    pc = "done" =>
        /\ result.kind \in {"ok", "err"}
        /\ result.kind = "err" =>
              \/ result.msg = "Unsupported registry: " \o registry_key
              \/ result.msg = "Unsupported HTTP method: " \o method
              \/ result.msg = "Too many redirects" /\ redirect_count > 10
              \/ result.msg = "transport" /\ out.kind \in {"upstream", "blob"}

\* C32: a Bearer token is sent to the upstream registry host only: a request
\* the blob pipeline sends after following a redirect to a URL on another
\* host carries no Authorization: Bearer header.
C32_TokenStaysWithUpstream ==
    (/\ out.kind = "blob"
     /\ redirect_count >= 1
     /\ UrlHost(out.url) # UpstreamHost) => ~IsBearer(out.headers)

\* ------------------------------------------------------------------------
\* Specification CanonSpec: format_docker_hub_path applied to bounded inputs
\* ------------------------------------------------------------------------

MaxSegs == 4

Segs == {"/", "v2", "library", "nginx", "v"}

RECURSIVE PathsUpTo(_)
PathsUpTo(n) ==
    IF n = 0 THEN {""}
    ELSE LET shorter == PathsUpTo(n - 1)
         IN  shorter \cup {p \o s : p \in shorter, s \in Segs}

CanonPaths == PathsUpTo(MaxSegs)

CanonKeys == {"v2", "docker", "quay"}

CanonInit ==
    /\ c_key \in CanonKeys
    /\ c_path \in CanonPaths
    /\ c_out = None
    /\ c_out2 = None
    /\ PrepIdle
    /\ TokenIdle
    /\ BodyIdle
    /\ ConcIdle
    /\ EngineIdle

Canonicalize ==
    /\ c_key # None
    /\ c_out = None
    /\ c_out' = format_docker_hub_path(c_key, c_path)
    /\ UNCHANGED <<c_key, c_path, c_out2, unit_vars, input_vars, engine_vars,
                   observer_vars>>

Recanonicalize ==
    /\ c_out # None
    /\ c_out2 = None
    /\ c_out2' = format_docker_hub_path(c_key, c_out)
    /\ UNCHANGED <<c_key, c_path, c_out, unit_vars, input_vars, engine_vars,
                   observer_vars>>

CanonNext == Canonicalize \/ Recanonicalize

CanonSpec == CanonInit /\ [][CanonNext]_vars

\* ------------------------------------------------------------------------
\* Properties of the path canonicalizer (checked under CanonSpec)
\* ------------------------------------------------------------------------

\* C5: for every registry key and every inbound path, the output of
\* format_docker_hub_path begins with /v2 (also when it is applied to its
\* own output).
C5_OutputBeginsWithV2 ==
    /\ c_out # None => StartsWith(c_out, "/v2")
    /\ c_out2 # None => StartsWith(c_out2, "/v2")

\* C5 witness: the canonicalizer has run on a path that is not in /v2 form
\* and has no leading slash, under a key other than v2.
C5_Witness ==
    /\ c_out # None
    /\ c_key = "docker"
    /\ ~StartsWith(c_path, "/")
    /\ c_path # ""

\* C6 as stated: the canonicalizer is idempotent for every key that routes
\* to Docker Hub, v2 included.
C6_IdempotentAllKeys ==
    (c_out2 # None /\ c_key \in {"v2", "docker"}) => c_out2 = c_out

\* C6 amended: the canonicalizer is idempotent for every registry key other
\* than v2: applied to its own output it returns that output.
C6_IdempotentNonV2 ==
    (c_out2 # None /\ c_key # "v2") => c_out2 = c_out

\* C6 witness: both applications have run under key docker on a path the
\* first application rewrote.
C6_Witness ==
    /\ c_out2 # None
    /\ c_key = "docker"
    /\ c_out # c_path

\* The six rules of C7, first match wins; the separators are counted as the
\* pieces of the path split on / less one.
C7_Rules(k, p) ==
    IF k = "v2" /\ p = "/" THEN "/v2/"
    ELSE IF k = "v2" THEN "/v2" \o p
    ELSE IF StartsWith(p, "/v2") THEN p
    ELSE IF StartsWith(p, "/library/") THEN "/v2" \o p
    ELSE IF StartsWith(p, "/")
         THEN IF Len(Split(p, "/")) - 1 >= 2
              THEN "/v2" \o p
              ELSE "/v2/library" \o p
    ELSE "/v2/" \o p

\* C7: format_docker_hub_path returns what the six rules give, applied in
\* order; (docker, /nginx) gives /v2/library/nginx and (docker,
\* /bitnami/redis) gives /v2/bitnami/redis.
C7_SixRulesInOrder ==
    /\ c_out # None => c_out = C7_Rules(c_key, c_path)
    /\ format_docker_hub_path("docker", "/nginx") = "/v2/library/nginx"
    /\ format_docker_hub_path("docker", "/bitnami/redis") = "/v2/bitnami/redis"

\* C7 witness: rule 5 has been applied to a path with two separators.
C7_Witness ==
    /\ c_out # None
    /\ c_key = "docker"
    /\ c_path = "/nginx/v"
    /\ c_out = "/v2/nginx/v"

\* ------------------------------------------------------------------------
\* Specification PrepSpec: prepare_headers applied to bounded inputs
\* ------------------------------------------------------------------------

\* The inbound header sets: with and without Host, Authorization and Accept
PrepHeaders ==
    {[host |-> h, authorization |-> a, accept |-> c] :
        h \in {None, "mirror.local"},
        a \in {None, "Basic Y2xpZW50"},
        c \in {None, "*/*", "application/json", BlobAccept}}

PrepRegistries == {DockerHub, "quay.io", "ghcr.io"}

PrepInit ==
    /\ CanonIdle
    /\ TokenIdle
    /\ BodyIdle
    /\ ConcIdle
    /\ EngineIdle
    /\ p_headers \in PrepHeaders
    /\ p_registry_url \in PrepRegistries
    /\ p_is_blob \in BOOLEAN
    /\ p_out = EmptyHeaders
    /\ p_called = FALSE

Prepare ==
    /\ p_registry_url # None
    /\ ~p_called
    /\ p_out' = prepare_headers(p_headers, p_registry_url, p_is_blob)
    /\ p_called' = TRUE
    /\ UNCHANGED <<conc_vars, p_headers, p_registry_url, p_is_blob, canon_vars, token_vars, body_vars,
                   input_vars, engine_vars, observer_vars>>

PrepNext == Prepare

PrepSpec == PrepInit /\ [][PrepNext]_vars

\* C16 as stated: the prepared headers of a non-blob request carry exactly
\* the manifest/API Accept bundle and those of a blob request exactly the
\* blob bundle, whatever Accept header the inbound headers hold.
C16_AcceptOverwritten ==
    p_called =>
        p_out.accept = IF p_is_blob THEN BlobAccept ELSE ManifestAccept

\* C16 amended: the prepared headers of a blob request carry exactly the
\* blob Accept bundle; those of a non-blob request carry the manifest/API
\* bundle when the inbound headers have no Accept header, and the inbound
\* Accept header unchanged when they have one.
C16_AcceptDefaulted ==
    p_called =>
        /\ p_is_blob => p_out.accept = BlobAccept
        /\ (~p_is_blob /\ p_headers.accept = None) => p_out.accept = ManifestAccept
        /\ (~p_is_blob /\ p_headers.accept # None) => p_out.accept = p_headers.accept

\* C16 witness: a non-blob request whose client asked for */* is prepared
\* with that Accept header.
C16_Witness ==
    /\ p_called
    /\ ~p_is_blob
    /\ p_headers.accept = "*/*"
    /\ p_out.accept = "*/*"

\* ------------------------------------------------------------------------
\* Specification TokenSpec: get_docker_hub_token applied to bounded inputs
\* ------------------------------------------------------------------------

\* DockerHubCredentials::default: each field is None when its environment
\* variable is unset, and the variable's value (the empty string too) when set
AllCredentials ==
    {[username |-> u, password |-> pw] :
        u \in {None, "", "user"}, pw \in {None, "", "secret"}}

TokenScopes == {"", "repository:library/nginx:pull"}

\* What the realm may answer: a transport error, a refusal, or a 2xx whose
\* JSON body holds each of the two fields with a value, empty, or not at all
AllTokenOutcomes ==
    {TokenReply(0, None, None), TokenReply(401, None, None)}
    \cup {TokenReply(200, t, a) : t \in {None, "", "T"}, a \in {None, "", "A"}}

TokenInit ==
    /\ CanonIdle
    /\ PrepIdle
    /\ BodyIdle
    /\ ConcIdle
    /\ EngineParked
    /\ credentials \in AllCredentials
    /\ t_scope \in TokenScopes
    /\ t_reply = TokenReply(0, None, None)
    /\ t_token = [some |-> FALSE, token |-> ""]
    /\ t_called = FALSE

TokenCall ==
    /\ t_scope # None
    /\ ~t_called
    /\ out' = TokenRequest(AuthRealm, AuthService, t_scope)
    /\ \E reply \in AllTokenOutcomes :
          /\ t_reply' = reply
          /\ t_token' = TokenResult(reply)
    /\ t_called' = TRUE
    /\ UNCHANGED <<conc_vars, t_scope, canon_vars, prep_vars, body_vars, input_vars, engine_vars,
                   first_upstream, followed, cdn_reqs, cdn_seen, chain_reqs,
                   trace>>

TokenNext == TokenCall

TokenSpec == TokenInit /\ [][TokenNext]_vars

\* A credential field that is present and not empty
NonEmpty(field) == field # None /\ field # ""

\* C17: a token request carries HTTP Basic auth if and only if both the
\* username and the password are present and non-empty.
C17_BasicAuthIffNonEmpty ==
    t_called =>
        (out.headers.authorization # None)
            <=> (NonEmpty(credentials.username) /\ NonEmpty(credentials.password))

\* C18: the Token Client fails on a transport error and on a non-2xx
\* response; on a 2xx it returns token when that is present and non-empty,
\* otherwise access_token when that is present and non-empty, and fails when
\* neither is: it never succeeds with the empty string.
C18_TokenOrAccessToken ==
    t_called =>
        LET chosen == IF NonEmpty(t_reply.token) THEN t_reply.token
                      ELSE IF NonEmpty(t_reply.access_token) THEN t_reply.access_token
                      ELSE ""
        IN  IF t_reply.status = 0 \/ ~is_success(t_reply.status) \/ chosen = ""
            THEN ~t_token.some
            ELSE t_token = [some |-> TRUE, token |-> chosen]

\* ------------------------------------------------------------------------
\* Specification BodySpec: the handler's Ok arm applied to bounded responses
\* ------------------------------------------------------------------------

MaxBody == 2

\* An ASCII byte, the two bytes of U+00E9, and a byte no UTF-8 text holds
BodyBytes == {65, 195, 169, 255}

RECURSIVE BodiesUpTo(_)
BodiesUpTo(n) ==
    IF n = 0 THEN {<<>>}
    ELSE LET shorter == BodiesUpTo(n - 1)
         IN  shorter \cup {Append(b, x) : b \in shorter, x \in BodyBytes}

Statuses == {200, 206, 404, 503}

BodyInit ==
    /\ CanonIdle
    /\ PrepIdle
    /\ TokenIdle
    /\ ConcIdle
    /\ EngineIdle
    /\ h_status \in Statuses
    /\ h_bytes \in BodiesUpTo(MaxBody)
    /\ h_read \in BOOLEAN
    /\ h_client = [status |-> 0, body |-> BytesBody(<<>>)]
    /\ h_called = FALSE

Respond ==
    /\ ~h_called
    /\ h_status # 0
    /\ h_client' = ClientResponse(h_status, h_bytes, h_read)
    /\ h_called' = TRUE
    /\ UNCHANGED <<conc_vars, h_status, h_bytes, h_read, canon_vars, prep_vars, token_vars,
                   input_vars, engine_vars, observer_vars>>

BodyNext == Respond

BodySpec == BodyInit /\ [][BodyNext]_vars

\* C24: when the upstream body could be read, the client receives the
\* upstream status unchanged; the body is the upstream's bytes for a 2xx,
\* and for any other status the text "Upstream error: <status>" when the
\* upstream body is empty and the upstream's bytes otherwise.
C24_StatusAndBodyForwarded ==
    (h_called /\ h_read) =>
        /\ h_client.status = h_status
        /\ h_client.body =
              IF h_status \in 200..299 \/ h_bytes # <<>>
              THEN BytesBody(h_bytes)
              ELSE TextBody("Upstream error: " \o StatusText(h_status))

\* ------------------------------------------------------------------------
\* Specification ConcSpec: two invocations of forward_request, both in the
\* general flow, interleaved at their awaits
\* ------------------------------------------------------------------------

ConcKeys == {"docker", "quay"}

ConcPaths == {"/library/nginx/manifests/latest"}

ConcInit ==
    /\ CanonIdle
    /\ PrepIdle
    /\ TokenIdle
    /\ BodyIdle
    /\ turn = 1
    /\ other \in {Context(k, p, "GET", h) :
                    k \in ConcKeys, p \in ConcPaths, h \in InboundHeaders}
    /\ registry_key \in ConcKeys
    /\ path \in ConcPaths
    /\ method = "GET"
    /\ headers \in InboundHeaders
    /\ body = None
    /\ credentials \in CredentialChoices
    /\ pc = "start"
    /\ EngineFresh

\* The locals of the invocation that runs
Running_Context ==
    [registry_key |-> registry_key, path |-> path, method |-> method,
     headers |-> headers, pc |-> pc, response |-> response,
     headers_with_auth |-> headers_with_auth, result |-> result, out |-> out,
     first_upstream |-> first_upstream, trace |-> trace]

\* The executor suspends the invocation that runs and resumes the other one;
\* the service's configuration stays where it is
Switch ==
    /\ turn # 0
    /\ turn' = 3 - turn
    /\ other' = Running_Context
    /\ registry_key' = other.registry_key
    /\ path' = other.path
    /\ method' = other.method
    /\ headers' = other.headers
    /\ pc' = other.pc
    /\ response' = other.response
    /\ headers_with_auth' = other.headers_with_auth
    /\ result' = other.result
    /\ out' = other.out
    /\ first_upstream' = other.first_upstream
    /\ trace' = other.trace
    /\ UNCHANGED <<canon_vars, prep_vars, token_vars, body_vars, body, credentials,
                   token, blob_vars, followed, cdn_reqs, cdn_seen, chain_reqs>>

ConcNext ==
    \/ ForwardGeneral
    \/ GeneralToken
    \/ GeneralRetry
    \/ GeneralApi
    \/ Switch

ConcSpec == ConcInit /\ [][ConcNext]_vars

\* Two invocations were given the same arguments
SameInputs(a, b) ==
    /\ a.registry_key = b.registry_key
    /\ a.path = b.path
    /\ a.method = b.method
    /\ a.headers = b.headers

\* The first k sends of two invocations ended alike
SameOutcomes(a, b, k) ==
    \A j \in 1..k : a.trace[j].outcome = b.trace[j].outcome

\* What invocation a has done is what b has done, or would do next, as far
\* as b's sends ended like a's
Follows(a, b) ==
    /\ \A k \in 1..Len(a.trace) :
          (Len(b.trace) >= k /\ SameOutcomes(a, b, k - 1)) =>
              a.trace[k].request = b.trace[k].request
    /\ (/\ a.pc = "done"
        /\ Len(b.trace) >= Len(a.trace)
        /\ SameOutcomes(a, b, Len(a.trace))) =>
              /\ Len(b.trace) = Len(a.trace)
              /\ b.pc = "done"
              /\ b.result = a.result

\* C25: in every interleaving of two invocations with the same arguments,
\* the requests each one sends and the result it returns are those of the
\* other as long as their sends ended alike, so they depend on nothing but
\* the invocation's arguments and the outcomes of its own sends; and no step
\* of an invocation changes the configuration (credentials, and through
\* them the token requests) that both read.
C25_InvocationsIndependent ==
    /\ [](SameInputs(Running_Context, other) =>
              /\ Follows(Running_Context, other)
              /\ Follows(other, Running_Context))
    /\ [][credentials' = credentials]_vars

\* C25 witness: the two invocations have taken turns through challenge,
\* token and retry, and both are done with three sends each.
C25_Witness ==
    /\ turn = 2
    /\ SameInputs(Running_Context, other)
    /\ pc = "done"
    /\ other.pc = "done"
    /\ Len(trace) = 3
    /\ Len(other.trace) = 3
    /\ SameOutcomes(Running_Context, other, 3)
    /\ trace[3].outcome = SendError
    /\ credentials.username = "user"

\* The kinds of the requests of a trace, in the order they were sent
KindsOf(tr) == [j \in 1..Len(tr) |-> tr[j].request.kind]

\* The orders of outbound requests of one non-blob inbound request, and
\* their beginnings
GeneralOrders ==
    {<<>>,
     <<"upstream">>,
     <<"upstream", "token">>,
     <<"upstream", "token", "retry">>,
     <<"upstream", "api">>}

\* C33: a non-blob inbound request causes at most three outbound requests,
\* in one of the orders (upstream), (upstream, token), (upstream, token,
\* retry) or (upstream, Hub API): no token or Hub API request comes before
\* the first upstream request, and the retry and the Hub API fall-back never
\* both happen for one inbound request.
C33_GeneralRequestOrders ==
    /\ KindsOf(trace) \in GeneralOrders
    /\ KindsOf(other.trace) \in GeneralOrders
    /\ Len(trace) <= 3
    /\ Len(other.trace) <= 3

\* C33 witness: one invocation is done after the upstream request and the
\* Hub API fall-back, the other after upstream request, token request and
\* retry.
C33_Witness ==
    /\ pc = "done"
    /\ other.pc = "done"
    /\ KindsOf(trace) = <<"upstream", "api">>
    /\ KindsOf(other.trace) = <<"upstream", "token", "retry">>
    /\ other.trace[3].outcome # SendError
    /\ other.trace[3].outcome.status = 403

\* ------------------------------------------------------------------------
\* Specification HeadSpec: forward_request for inbound requests with and
\* without a body
\* ------------------------------------------------------------------------

HeadKeys == {"docker", "quay", "unknown"}

HeadPaths == {"/library/nginx/manifests/latest", "/library/nginx/blobs/sha256:0a1b"}

HeadMethods == {"HEAD", "POST"}

Bodies == {None, "payload"}

HeadInit ==
    /\ CanonIdle
    /\ PrepIdle
    /\ TokenIdle
    /\ BodyIdle
    /\ ConcIdle
    /\ registry_key \in HeadKeys
    /\ path \in HeadPaths
    /\ method \in HeadMethods
    /\ headers = Headers("mirror.local", None)
    /\ body \in Bodies
    /\ credentials = [username |-> None, password |-> None]
    /\ pc = "start"
    /\ EngineFresh

HeadSpec == HeadInit /\ [][Next]_vars

\* The requests forward_request builds for the upstream: the first request
\* of the general flow, its authenticated retry, and the hops of the blob
\* pipeline
ForUpstream(request) == request.kind \in {"upstream", "retry", "blob"}

\* C26: a request the engine builds for the upstream carries no body when
\* the inbound method is HEAD, and the inbound body, if there is one, for any
\* other method.
C26_NoBodyOnHead ==
    /\ ForUpstream(out) =>
          out.body = IF method = "HEAD" THEN None ELSE body
    /\ ForUpstream(first_upstream) =>
          first_upstream.body = IF method = "HEAD" THEN None ELSE body

\* C26 witness: a HEAD request that came with a body has followed a redirect
\* in the blob pipeline, and the hop went out without the body.
C26_Witness ==
    /\ method = "HEAD"
    /\ body = "payload"
    /\ out.kind = "blob"
    /\ redirect_count = 1
    /\ followed = 1
    /\ out.body = None
    /\ first_upstream.body = None


\* ------------------------------------------------------------------------
\* Specification DigestSpec: forward_request for blob paths whose text after
\* /blobs/ has several lengths and shapes
\* ------------------------------------------------------------------------

\* Docker Hub, a registry whose 403 is returned as it is, and a key that is
\* in no table
DigestKeys == {"docker", "quay", "unknown"}

\* After /blobs/: a sha256 digest, a text of 8 characters, a text of 6
\* characters that is no digest, and a text of more than 9 characters that
\* is not of the form sha256:<hex>; and one path that is no blob path
DigestPaths == {"/library/nginx/blobs/sha256:0a1b",
                "/library/nginx/blobs/sha256:0",
                "/library/nginx/blobs/latest",
                "/library/nginx/blobs/md5:0a1b2c",
                "/library/nginx/manifests/latest"}

DigestInit ==
    /\ CanonIdle
    /\ PrepIdle
    /\ TokenIdle
    /\ BodyIdle
    /\ ConcIdle
    /\ registry_key \in DigestKeys
    /\ path \in DigestPaths
    /\ method = "GET"
    /\ headers = Headers("mirror.local", None)
    /\ body = None
    /\ credentials = [username |-> None, password |-> None]
    /\ pc = "start"
    /\ EngineFresh

DigestSpec == DigestInit /\ [][Next]_vars

\* C31: a blob request that has ended has ended with a response or with an
\* error value, whatever the text after /blobs/ is; building the candidate
\* URLs never aborts it.
C31_BlobForbiddenCompletes ==
    (is_blob_request /\ pc = "done") => result.kind \in {"ok", "err"}

====
